---- MODULE Spec2Model ----
(***************************************************************************)
(* Firmware-upgrade verification scripts of src/autotest:                  *)
(*   auto_update.py      telnet orchestrator, its Web and SerialHandler    *)
(*   auto_update_ssh.py  SSH (reboot) orchestrator                         *)
(*   auto_conn.py        telnet handler (get_file_md5 over telnet)         *)
(*   auto_ssh.py         SSH wrapper (get_file_md5, reboot)                *)
(*   auto_web.py         Web collaborator of the SSH orchestrator          *)
(*                                                                         *)
(* Text is a sequence of characters; a character is a one-element string   *)
(* ("a", " ") or, for a character outside ASCII, its code point name       *)
(* ("U+0660").  Python's None is the value None below.                     *)
(***************************************************************************)
EXTENDS Integers, Sequences, FiniteSets, TLC

None == <<"<None>">>

(***************************************************************************)
(* Character classes of Python's re module on str patterns.                *)
(***************************************************************************)
HexLower == {"a", "b", "c", "d", "e", "f"}
HexUpper == {"A", "B", "C", "D", "E", "F"}
AsciiDigits == {"0", "1", "2", "3", "4", "5", "6", "7", "8", "9"}
\* Decimal digits (Unicode category Nd) outside ASCII: \d matches them in a
\* str pattern, [0-9] does not.  U+0660 ARABIC-INDIC DIGIT ZERO and U+FF11
\* FULLWIDTH DIGIT ONE stand for the class.
NonAsciiDigits == {"U+0660", "U+FF11"}
\* \d
ReDigit == AsciiDigits \cup NonAsciiDigits
\* [a-fA-F\d]
Md5Class == HexLower \cup HexUpper \cup ReDigit
\* [0-9a-fA-F]
SshMd5Class == AsciiDigits \cup HexLower \cup HexUpper
\* \w restricted to the characters used here: letters, digits, underscore
OtherLetters == {"g", "i", "m", "n", "o", "s", "t", "u", "x", "G"}
ReWord == HexLower \cup HexUpper \cup ReDigit \cup OtherLetters \cup {"_"}

MD5_LEN == 32

Min(S) == CHOOSE x \in S : \A y \in S : x <= y

\* str.lower() on the characters used here
LowerChar(c) ==
    CASE c = "A" -> "a" [] c = "B" -> "b" [] c = "C" -> "c"
      [] c = "D" -> "d" [] c = "E" -> "e" [] c = "F" -> "f"
      [] c = "G" -> "g" [] c = "H" -> "h" [] c = "I" -> "i"
      [] c = "L" -> "l" [] c = "S" -> "s" [] c = "T" -> "t"
      [] c = "X" -> "x" [] OTHER -> c
Lower(s) == [i \in 1..Len(s) |-> LowerChar(s[i])]
\* str.upper() on the characters used here
UpperChar(c) ==
    CASE c = "a" -> "A" [] c = "b" -> "B" [] c = "c" -> "C"
      [] c = "d" -> "D" [] c = "e" -> "E" [] c = "f" -> "F"
      [] c = "g" -> "G" [] c = "h" -> "H" [] c = "i" -> "I"
      [] c = "l" -> "L" [] c = "s" -> "S" [] c = "t" -> "T"
      [] c = "x" -> "X" [] OTHER -> c
Upper(s) == [i \in 1..Len(s) |-> UpperChar(s[i])]

\* positions at which a run of MD5_LEN characters of class cls starts
RunStarts(output, cls) ==
    {i \in 1..(Len(output) - MD5_LEN + 1) :
        \A j \in 0..(MD5_LEN - 1) : output[i + j] \in cls}

\* re.search(r"([a-fA-F\d]{32})", output): the leftmost match, group 1
extract_md5(output) ==
    LET starts == RunStarts(output, Md5Class)
    IN  IF starts = {} THEN None
        ELSE SubSeq(output, Min(starts), Min(starts) + MD5_LEN - 1)

\* auto_conn.SerialHandler._extract_md5: the same pattern
conn_extract_md5(bufText) ==
    LET starts == RunStarts(bufText, Md5Class)
    IN  IF starts = {} THEN None
        ELSE SubSeq(bufText, Min(starts), Min(starts) + MD5_LEN - 1)

\* \b at position i (between output[i-1] and output[i]) of a text
WordBoundary(output, i) ==
    LET before == i > 1 /\ output[i - 1] \in ReWord
        after == i <= Len(output) /\ output[i] \in ReWord
    IN  before # after

\* re.search(r'\b[0-9a-fA-F]{32}\b', md5info) of SSHClientWrapper.get_file_md5
ssh_extract_md5(md5info) ==
    LET starts == {i \in RunStarts(md5info, SshMd5Class) :
                      /\ WordBoundary(md5info, i)
                      /\ WordBoundary(md5info, i + MD5_LEN)}
    IN  IF starts = {} THEN None
        ELSE SubSeq(md5info, Min(starts), Min(starts) + MD5_LEN - 1)

(***************************************************************************)
(* Sample texts: a text is a concatenation of runs of one character.       *)
(***************************************************************************)
Rep(c, n) == [i \in 1..n |-> c]

MaxRuns == 2
SampleChars == {"a", "F", "7", "g", " ", "U+0660"}
RunLens == {1, MD5_LEN - 1, MD5_LEN}
SampleRuns == {Rep(c, n) : c \in SampleChars, n \in RunLens}

RECURSIVE Texts(_)
Texts(k) ==
    IF k = 0 THEN {<<>>}
    ELSE LET shorter == Texts(k - 1)
         IN  shorter \cup {t \o r : t \in shorter, r \in SampleRuns}
SampleTexts == Texts(MaxRuns)

(***************************************************************************)
(* Data of a run: the local file's hash and what the device may print.     *)
(***************************************************************************)
\* hashlib.md5 of the local file (hexdigest: lower-case hexadecimal); the
\* file of the runs below is empty
EmptyFileMd5 ==
    <<"d", "4", "1", "d", "8", "c", "d", "9", "8", "f", "0", "0", "b", "2", "0", "4",
      "e", "9", "8", "0", "0", "9", "9", "8", "e", "c", "f", "8", "4", "2", "7", "e">>
\* the hash of another content
OtherMd5 ==
    <<"0", "c", "c", "1", "7", "5", "b", "9", "c", "0", "f", "1", "b", "6", "a", "8",
      "3", "1", "c", "3", "9", "9", "e", "2", "6", "9", "7", "7", "2", "6", "6", "1">>
TestFileName == <<"t", "e", "s", "t", ".", "b", "i", "n">>

\* what md5sum prints for a hash: "<hash>  test.bin"
Md5sumLine(h) == h \o <<" ", " ">> \o TestFileName
\* texts a read of the device can return: the right hash, the right hash in
\* upper case, another hash, text without a hash, nothing (a timeout)
DeviceTexts ==
    { Md5sumLine(EmptyFileMd5), Md5sumLine(Upper(EmptyFileMd5)),
      Md5sumLine(OtherMd5), <<"m", "d", "5", "s", "u", "m", " ">> \o TestFileName,
      <<>> }

\* the texts the reads of a script can return: when the script is cut short
\* by an exception the texts are not used, and one stands for all
ReadsWhen(completes) == IF completes THEN DeviceTexts ELSE {<<>>}

\* a calculate_md5 that returns the hash of no content for a missing file
calculate_md5_EmptyHashWhenMissing(exists) == EmptyFileMd5

\* calculate_md5(boot_file): None when the file does not exist
calculate_md5(exists) == IF exists THEN EmptyFileMd5 ELSE None

(***************************************************************************)
(* auto_update.py: the telnet orchestrator's collaborators.                *)
(***************************************************************************)
COMMANDS == <<"q", "exit", "end", "co", "_", "_", "hzdp2015">>

\* a script in which md5sum is sent before the directory is mounted
TelnetVerifyOps_Md5sumFirst ==
    [i \in 1..Len(COMMANDS) |-> <<"send", COMMANDS[i]>>] \o
    << <<"send", "">>, <<"send", "md5sum test.bin">>, <<"send", "mount /boot">>,
       <<"send", "cd /boot">>, <<"send", "ls">>, <<"read", "test.bin">>,
       <<"read", "test.bin">>, <<"read", "test.bin">> >>

\* conn_validate_soft_process: COMMANDS, then "", mount, cd, ls, read,
\* md5sum, read, read
TelnetVerifyOps ==
    [i \in 1..Len(COMMANDS) |-> <<"send", COMMANDS[i]>>] \o
    << <<"send", "">>, <<"send", "mount /boot">>, <<"send", "cd /boot">>,
       <<"send", "ls">>, <<"read", "test.bin">>, <<"send", "md5sum test.bin">>,
       <<"read", "test.bin">>, <<"read", "test.bin">> >>

\* no device script has run
NoScript == [step |-> "", connected |-> TRUE, ops |-> <<>>]

\* what an operation of the telnet script does when it completes:
\* send_command writes the line, then sleeps for the settle delay;
\* read_until reads
OpTrace(op) ==
    IF op[1] = "send" THEN << op, <<"settle", op[2]>> >> ELSE << op >>

RECURSIVE ScriptTrace(_, _)
ScriptTrace(ops, n) ==
    IF n = 0 THEN <<>> ELSE ScriptTrace(ops, n - 1) \o OpTrace(ops[n])

\* conn_validate_soft_process, lines 364-389: the operations completed when
\* operation failAt raises (0: none raises), one after the other
conn_validate_trace(failAt) ==
    ScriptTrace(TelnetVerifyOps,
                IF failAt = 0 THEN Len(TelnetVerifyOps) ELSE failAt - 1)

\* Web.web_upload_software of auto_update.py; failing is the step that
\* fails, "none" when all succeed.  Menu navigation and the iframe switch
\* run outside the try block and their decorated helpers re-raise.
UploadSteps == {"none", "menu", "iframe", "file_input", "upload_click", "alert"}
update_web_upload(failing) ==
    CASE failing \in {"menu", "iframe"} -> "raised"
      [] failing \in {"file_input", "upload_click", "alert"} -> "failed_logged"
      [] OTHER -> "uploaded"

\* Web.web_delete_software of auto_update.py
DeleteSteps == {"none", "refresh", "menu", "iframe", "next_boot", "find_row",
                "submit", "refresh_after"}
update_web_delete(failing) ==
    CASE failing \in {"refresh", "menu", "iframe", "refresh_after"} -> "raised"
      [] failing \in {"find_row", "submit"} -> "failed_logged"
      [] OTHER -> "deleted"

\* a conn_validate_soft_process that reports an extraction miss as a failure
conn_validate_MissIsFailure(failAt, reads, before, term) ==
    IF failAt # 0 THEN "False"
    ELSE LET after_md5 == extract_md5(reads[3])
         IN  IF after_md5 = None THEN "False"
             ELSE IF after_md5 # before
                  THEN IF term THEN "SystemExit" ELSE "False"
                  ELSE "True"

\* a conn_validate_soft_process that compares the hash of the third read
\* with the hash of the read before it instead of the baseline
conn_validate_PreviousReadReference(failAt, reads, before, term) ==
    IF failAt # 0 THEN "False"
    ELSE LET after_md5 == extract_md5(reads[3])
         IN  IF after_md5 = None THEN "True"
             ELSE IF after_md5 # extract_md5(reads[2])
                  THEN IF term THEN "SystemExit" ELSE "False"
                  ELSE "True"

\* conn_validate_soft_process(serial_handler, before_md5): failAt is the
\* operation of TelnetVerifyOps that raises (0: none), reads the texts the
\* three read_until calls return.  "SystemExit" is not an Exception and
\* leaves the function.
conn_validate_soft_process(failAt, reads, before, term) ==
    IF failAt # 0 THEN "False"
    ELSE LET after_md5 == extract_md5(reads[3])
         IN  IF after_md5 = None THEN "True"
             ELSE IF after_md5 # before
                  THEN IF term THEN "SystemExit" ELSE "False"
                  ELSE "True"

\* a main_process that leaves the loop on every failed validation
main_after_validate_AlwaysBreak(ret, term) ==
    CASE ret = "SystemExit" -> "break"
      [] ret = "False" -> "break"
      [] OTHER -> "delete"

\* a main_process that goes on to the delete after a SystemExit
main_after_validate_NoBreak(ret, term) == "delete"

\* main_process of auto_update.py, lines 446-453: what follows the call
main_after_validate(ret, term) ==
    CASE ret = "SystemExit" -> "break"
      [] ret = "False" -> IF term THEN "break" ELSE "delete"
      [] OTHER -> "delete"

(***************************************************************************)
(* The session objects: SerialHandler of auto_update.py ("update"),        *)
(* SerialHandler of auto_conn.py ("conn"), SSHClientWrapper of auto_ssh.py *)
(* ("ssh").  w is self.writer (self.ssh_client): "None" or "set".          *)
(***************************************************************************)
\* connect / _connect: open_connection raises when it fails and the
\* assignment to self.reader, self.writer does not happen
serial_connect(w, ok) ==
    [ writer |-> IF ok THEN "set" ELSE w, raised |-> ~ok ]

\* exception_handler around an async method whose body raises (or not):
\* how often the wrapper logs, and whether the caller gets the exception.
\* The wrapper of auto_conn.py ("conn") is async and awaits the method inside
\* its try block.  The wrapper of auto_update.py ("update") is a plain
\* function: func(...) only creates the coroutine, the body runs when the
\* caller awaits it, outside the try block.
exception_handler(class, bodyRaises) ==
    LET bodyRunsInsideTry == class = "conn"
    IN  [ logged |-> IF bodyRaises /\ bodyRunsInsideTry THEN 1 ELSE 0,
          raised |-> bodyRaises ]

\* send_command / _send_command: ConnectionError while self.writer is None,
\* self.writer.write otherwise; the transport may raise
serial_send_command(w, transportRaises) ==
    IF w = "None"
    THEN [ writes |-> FALSE, raised |-> TRUE ]
    ELSE [ writes |-> TRUE, raised |-> transportRaises ]

\* Bytes the device sends: an ASCII byte is written as its character; 0xC3
\* 0xA9 is the UTF-8 encoding of U+00E9; 0xFF occurs in no UTF-8 text.
Utf8Lead == {"0xC3"}
Utf8Cont == {"0xA9"}
Utf8Invalid == {"0xFF"}
DecodeError == <<"<UnicodeDecodeError>">>

\* bytes.decode("utf-8"): DecodeError stands for the UnicodeDecodeError raised
RECURSIVE decode_utf8(_)
decode_utf8(bytes) ==
    IF bytes = <<>> THEN <<>>
    ELSE LET b == Head(bytes)
         IN  IF b \in Utf8Invalid \cup Utf8Cont THEN DecodeError
             ELSE IF b \in Utf8Lead
             THEN IF Len(bytes) >= 2 /\ bytes[2] \in Utf8Cont
                  THEN LET rest == decode_utf8(SubSeq(bytes, 3, Len(bytes)))
                       IN  IF rest = DecodeError THEN DecodeError
                           ELSE <<"U+00E9">> \o rest
                  ELSE DecodeError
             ELSE LET rest == decode_utf8(Tail(bytes))
                  IN  IF rest = DecodeError THEN DecodeError ELSE <<b>> \o rest

\* positions at which expected occurs in a sequence
Occurrences(seq, expected) ==
    {i \in 1..(Len(seq) - Len(expected) + 1) :
        SubSeq(seq, i, i + Len(expected) - 1) = expected}

\* StreamReader.readuntil(expected_bytes) under asyncio.wait_for: the bytes up
\* to and including the first occurrence of the separator; without one,
\* IncompleteReadError when the peer has closed (eof), TimeoutError otherwise
readuntil(stream, expected_bytes) ==
    LET at == Occurrences(stream.bytes, expected_bytes)
    IN  IF at # {}
        THEN [ kind |-> "data",
               buf |-> SubSeq(stream.bytes, 1, Min(at) + Len(expected_bytes) - 1) ]
        ELSE [ kind |-> IF stream.eof THEN "IncompleteReadError" ELSE "TimeoutError",
               buf |-> <<>> ]

\* what the device sends during a read: the token after a listing, after
\* text outside ASCII, after a byte that is not UTF-8, no token, nothing
DeviceStreams ==
    [ bytes : { <<"l", "s", " ">> \o TestFileName \o <<" ", "x">>,
                <<"0xC3", "0xA9", " ">> \o TestFileName,
                <<"0xFF", " ">> \o TestFileName,
                <<"l", "s", " ">>,
                <<>> },
      eof : BOOLEAN ]

\* read_until / _read_until: ConnectionError while self.reader is None;
\* the TimeoutError of wait_for is caught and "" returned; every other
\* exception (of readuntil, of decode) leaves the method
serial_read_until(w, stream) ==
    IF w = "None"
    THEN [ reads |-> FALSE, raised |-> TRUE, ret |-> None ]
    ELSE LET got == readuntil(stream, TestFileName)
         IN  CASE got.kind = "TimeoutError" ->
                    [ reads |-> TRUE, raised |-> FALSE, ret |-> <<>> ]
               [] got.kind = "IncompleteReadError" ->
                    [ reads |-> TRUE, raised |-> TRUE, ret |-> None ]
               [] OTHER ->
                    LET text == decode_utf8(got.buf)
                    IN  IF text = DecodeError
                        THEN [ reads |-> TRUE, raised |-> TRUE, ret |-> None ]
                        ELSE [ reads |-> TRUE, raised |-> FALSE, ret |-> text ]

\* SerialHandler.close of auto_update.py: no try block around writer.close()
update_close(w, transportRaises) ==
    [ calls_transport |-> w # "None",
      raised |-> w # "None" /\ transportRaises,
      writer |-> w ]

\* SerialHandler._close of auto_conn.py (and _safe_close around it): the
\* error of writer.close() is logged
conn_close(w, transportRaises) ==
    [ calls_transport |-> w # "None",
      raised |-> FALSE,
      writer |-> w ]

\* a _disconnect that leaves the client as it is
ssh_disconnect_LeavesOpen(w, transportRaises) ==
    [ calls_transport |-> FALSE, raised |-> FALSE, writer |-> w ]

\* SSHClientWrapper._disconnect: no try block around ssh_client.close()
ssh_disconnect(w, transportRaises) ==
    [ calls_transport |-> w # "None",
      raised |-> w # "None" /\ transportRaises,
      writer |-> w ]

session_close(class, w, transportRaises) ==
    CASE class = "update" -> update_close(w, transportRaises)
      [] class = "conn" -> conn_close(w, transportRaises)
      [] OTHER -> ssh_disconnect(w, transportRaises)

(***************************************************************************)
(* auto_ssh.py and auto_web.py: the SSH orchestrator's collaborators.      *)
(***************************************************************************)
SshMd5Script ==
    <<"ssh 127.0.0.1 22000", "conplat", "yy4lsz1h", "su", "yy4lsz1h",
      "mount /boot", "cd /boot", "md5sum test.bin", "exit", "exit">>
SshRebootScript == <<"reboot", "Y", "Y">>

\* the loops over commands of get_file_md5 and reboot: shell.send(cmd),
\* time.sleep(delay), then the output is received
RECURSIVE SshTrace(_, _)
SshTrace(script, n) ==
    IF n = 0 THEN <<>>
    ELSE SshTrace(script, n - 1) \o
         << <<"send", script[n]>>, <<"settle", script[n]>>, <<"recv", script[n]>> >>

\* SSHClientWrapper.get_file_md5: connOk is _connect's success, failAt the
\* shell operation that raises (0: none), md5info the output of md5sum,
\* closeRaises whether ssh_client.close() raises in the finally block.
ssh_get_file_md5(connOk, failAt, md5info, closeRaises) ==
    [ ret |-> IF ~connOk \/ failAt # 0 THEN None ELSE ssh_extract_md5(md5info),
      sent |-> IF ~connOk THEN 0
               ELSE IF failAt = 0 THEN Len(SshMd5Script) ELSE failAt - 1,
      trace |-> SshTrace(SshMd5Script,
                         IF ~connOk THEN 0
                         ELSE IF failAt = 0 THEN Len(SshMd5Script) ELSE failAt - 1),
      close_calls |-> IF ssh_disconnect("set", closeRaises).calls_transport THEN 1 ELSE 0,
      raised |-> ssh_disconnect("set", closeRaises).raised ]

\* SSHClientWrapper.reboot
ssh_reboot(connOk, failAt, closeRaises) ==
    [ sent |-> IF ~connOk THEN 0
               ELSE IF failAt = 0 THEN Len(SshRebootScript) ELSE failAt - 1,
      trace |-> SshTrace(SshRebootScript,
                         IF ~connOk THEN 0
                         ELSE IF failAt = 0 THEN Len(SshRebootScript) ELSE failAt - 1),
      close_calls |-> IF ssh_disconnect("set", closeRaises).calls_transport THEN 1 ELSE 0,
      raised |-> ssh_disconnect("set", closeRaises).raised ]

\* SerialHandler.get_file_md5 of auto_conn.py: connOk is _connect's success,
\* stepRaises whether a later step of the try block raises, buf the text of
\* the third read.  Every exception is logged and None returned; the finally
\* block closes through _safe_close, which catches.
conn_get_file_md5(w, connOk, stepRaises, bufText, closeRaises) ==
    LET writer == serial_connect(w, connOk).writer
    IN  [ ret |-> IF ~connOk \/ stepRaises THEN None ELSE conn_extract_md5(bufText),
          writer |-> writer,
          sent |-> connOk,
          close_calls |-> IF conn_close(writer, closeRaises).calls_transport
                          THEN 1 ELSE 0,
          raised |-> conn_close(writer, closeRaises).raised ]

\* a main_process of auto_update_ssh.py without the break
ssh_after_md5_NoBreak(md5_value, before, term) ==
    IF md5_value # None
    THEN IF md5_value # before
         THEN [warn |-> TRUE, next |-> "continue"]
         ELSE [warn |-> FALSE, next |-> "continue"]
    ELSE [warn |-> FALSE, next |-> "continue"]

\* main_process of auto_update_ssh.py, lines 244-251 and 259-266
ssh_after_md5(md5_value, before, term) ==
    IF md5_value # None
    THEN IF md5_value # before
         THEN [warn |-> TRUE, next |-> IF term THEN "break" ELSE "continue"]
         ELSE [warn |-> FALSE, next |-> "continue"]
    ELSE [warn |-> FALSE, next |-> "continue"]

\* Web.web_upload_software of auto_web.py: every helper catches
web_upload(failing) ==
    IF failing = "none" THEN "uploaded" ELSE "failed_logged"

\* Web.web_delete_software of auto_web.py: the two refresh calls are outside
\* the try blocks
web_delete(failing) ==
    CASE failing \in {"refresh", "refresh_after"} -> "raised"
      [] failing = "none" -> "deleted"
      [] OTHER -> "failed_logged"

\* Web.web_delete_software of auto_web.py, step by step: what it attempts, in
\* order, when the step named failing fails. navigate_to_menu, _switch_to_iframe
\* and _click_element catch; each of the two blocks catches; refresh is bare.
web_delete_trace(original_file, failing) ==
    LET page == <<"refresh", "menu", "iframe">>
        next_boot == IF ~original_file THEN <<>>
                     ELSE IF failing = "next_boot" THEN <<"next_boot">>
                     ELSE <<"next_boot", "next_boot_submit">>
        delete == IF failing = "find_row" THEN <<"delete">>
                  ELSE <<"delete", "delete_submit">>
        body == page \o next_boot \o delete \o <<"refresh_after">>
    IN  CASE failing = "refresh" ->
               [trace |-> <<"refresh">>, result |-> "raised"]
          [] failing = "refresh_after" ->
               [trace |-> body, result |-> "raised"]
          [] OTHER ->
               [trace |-> body \o <<"default_content">>,
                result |-> web_delete(failing)]

\* the dialog texts tried: up to MaxFragments pieces, one after another
MaxFragments == 2
SuccessKeywords == { <<"U+6210", "U+529F">>, <<"U+5B8C", "U+6210">>,
                     <<"c", "o", "m", "p", "l", "e", "t", "e", "d">> }
AlertFragments ==
    SuccessKeywords \cup
    { <<"C", "o", "m", "p", "l", "e", "t", "e", "d">>, <<"c", "o", "m", "p">>,
      <<"l", "e", "t", "e", "d">>, <<"U+5931", "U+8D25">>, <<"U+6210">>,
      <<"U+529F">>, <<" ">> }
RECURSIVE AlertTextsOf(_)
AlertTextsOf(n) ==
    IF n = 0 THEN { <<>> }
    ELSE LET shorter == AlertTextsOf(n - 1)
         IN  shorter \cup { t \o f : t \in shorter, f \in AlertFragments }
AlertTexts == AlertTextsOf(MaxFragments)

\* a _handle_alert that looks for the first keyword only
handle_alert_FirstKeywordOnly(class, dialog) ==
    IF ~dialog.appears
    THEN [ops |-> <<>>, raised |-> class = "update"]
    ELSE [ops |-> IF Occurrences(dialog.text, <<"U+6210", "U+529F">>) # {}
                  THEN <<"accept">> ELSE <<"dismiss">>,
          raised |-> class = "update" /\ dialog.actRaises]

\* Web._handle_alert: wait for the dialog, read its text, accept it when the
\* text holds a keyword, dismiss it otherwise. A dialog that never appears
\* ends the wait with TimeoutException; auto_web.py catches whatever is
\* raised, the decorator of auto_update.py logs it and raises it again.
handle_alert(class, dialog) ==
    IF ~dialog.appears
    THEN [ops |-> <<>>, raised |-> class = "update"]
    ELSE [ops |-> IF \E keyword \in SuccessKeywords :
                        Occurrences(dialog.text, keyword) # {}
                  THEN <<"accept">> ELSE <<"dismiss">>,
          raised |-> class = "update" /\ dialog.actRaises]

\* ssh_interactive_shell: the lines typed at its prompt
ExitShell == <<"e", "x", "i", "t", "_", "s", "h", "e", "l", "l">>
TermLines == { ExitShell, Upper(ExitShell), <<"E">> \o Tail(ExitShell),
               <<"e", "x", "i", "t">>, <<"l", "s">>, <<>> }

\* a loop that leaves on the lower-case spelling only
shell_step_CaseSensitive(command) ==
    IF command = ExitShell THEN "break" ELSE "send"

\* ssh_interactive_shell: what the loop does with one line
shell_step(command) ==
    IF Lower(command) = ExitShell THEN "break" ELSE "send"

\* Web.open_web: the driver may fail to start, or the login page to load
OpenWebResults == {"ok", "no_driver", "page_failed"}

(***************************************************************************)
(* What a verification found, by the specification's terms: the extracted  *)
(* token compared with the baseline without regard to letter case.         *)
(***************************************************************************)
VerifyOutcome(failed, token, before) ==
    IF failed THEN "error"
    ELSE IF token = None THEN "none"
    ELSE IF Lower(token) = Lower(before) THEN "match"
    ELSE "mismatch"

MaxLoop == 2

VARIABLES
    buf,        \* extraction: the text handed to an extractor
    ext_ret,    \* extraction: what the extractor returned
    ext_pc,     \* extraction: "input" before the call, the extractor's name after
    variant,    \* "telnet" (auto_update.py) or "ssh" (auto_update_ssh.py)
    terminate,  \* TERMINATE_ON_MD5_MISMATCH
    loop_count, \* LOOP_CHECK_COUNT
    file_exists,\* whether boot_file exists
    pc,         \* the orchestrator's position in main_process
    count,      \* the loop variable
    before_md5, \* the baseline hash
    v_ret,      \* what conn_validate_soft_process returned or raised
    outcome,    \* the outcome of the last verification (VerifyOutcome)
    writer,     \* serial_handler.writer: "None", "open" or "closed"
    events,     \* what has happened: <<name, iteration>>
    end_reason, \* why main_process ended ("" while it runs)
    sess,       \* device sessions: created, close attempts
    browsers,   \* browser sessions open
    script_log, \* the device script last run: its step and what it did, in order
    drain,      \* get_file_md5: chunks appended to output by the recv loop (mod 2)
    web_last,   \* how the web step just made ended ("-": none to report)
    s_class,    \* session object: its class, "update", "conn" or "ssh"
    s_writer,   \* session object: self.writer (self.ssh_client), "None" or "set"
    s_chan,     \* session object: its channel, "none", "open" or "closed"
    s_write_on, \* session object: the channel states in which text was written
    s_closes,   \* session object: close() calls made on the channel
    s_last,     \* session object: the last call, and whether it raised
    s_calls,    \* session object: number of calls made
    fn,         \* web helper: the function applied ("input" before the call)
    fn_in,      \* web helper: its arguments and what the browser does
    fn_out,     \* web helper: what it did and how it ended
    t_pc,       \* ssh_interactive_shell: "loop", "closed", "failed" ("idle": unused)
    t_typed,    \* ssh_interactive_shell: the lines input() has returned
    t_sent,     \* ssh_interactive_shell: what shell.send was given, in order
    t_closes,   \* ssh_interactive_shell: ssh_client.close() calls
    t_reader,   \* ssh_interactive_shell: the thread running read_output
    st_term,    \* telnet stream: TERMINATE_ON_MD5_MISMATCH
    st_count,   \* telnet stream: iterations verified so far
    st_rx,      \* telnet stream: device output received and not yet read
    st_reads,   \* telnet stream: what the three reads of the last Verify returned
    st_ret      \* telnet stream: what the last conn_validate_soft_process returned

extVars == <<buf, ext_ret, ext_pc>>
orchVars == <<variant, terminate, loop_count, file_exists, pc, count, before_md5,
              v_ret, outcome, writer, events, end_reason, sess, browsers,
              script_log, drain, web_last>>
sessVars == <<s_class, s_writer, s_chan, s_write_on, s_closes, s_last, s_calls>>
toolVars == <<fn, fn_in, fn_out>>
termVars == <<t_pc, t_typed, t_sent, t_closes, t_reader>>
streamVars == <<st_term, st_count, st_rx, st_reads, st_ret>>
auxVars == <<toolVars, termVars, streamVars>>
vars == <<extVars, orchVars, sessVars, auxVars>>

(***************************************************************************)
(* The extractors, each on every sample text.                              *)
(***************************************************************************)
ExtInit ==
    /\ buf \in SampleTexts
    /\ ext_ret = None
    /\ ext_pc = "input"

ExtIdle ==
    /\ buf = <<>>
    /\ ext_ret = None
    /\ ext_pc = "idle"

CallExtractMd5 ==
    /\ ext_pc = "input"
    /\ ext_ret' = extract_md5(buf)
    /\ ext_pc' = "extract_md5"
    /\ UNCHANGED <<buf, orchVars, sessVars, auxVars>>

CallConnExtractMd5 ==
    /\ ext_pc = "input"
    /\ ext_ret' = conn_extract_md5(buf)
    /\ ext_pc' = "conn_extract_md5"
    /\ UNCHANGED <<buf, orchVars, sessVars, auxVars>>

CallSshExtractMd5 ==
    /\ ext_pc = "input"
    /\ ext_ret' = ssh_extract_md5(buf)
    /\ ext_pc' = "ssh_extract_md5"
    /\ UNCHANGED <<buf, orchVars, sessVars, auxVars>>

ExtNext ==
    \/ CallExtractMd5
    \/ CallConnExtractMd5
    \/ CallSshExtractMd5

(***************************************************************************)
(* The orchestrators.                                                      *)
(***************************************************************************)
OrchInit ==
    /\ variant \in {"telnet", "ssh"}
    /\ terminate \in BOOLEAN
    /\ loop_count \in 0..MaxLoop
    /\ file_exists \in BOOLEAN
    /\ pc = "start"
    /\ count = 0
    /\ before_md5 = None
    /\ v_ret = "-"
    /\ outcome = "-"
    /\ writer = "None"
    /\ events = {}
    /\ end_reason = ""
    /\ sess = [created |-> 0, close_attempts |-> 0, instance_connects |-> 0]
    /\ browsers = 0
    /\ script_log = NoScript
    /\ drain = 0
    /\ web_last = "-"

OrchIdle ==
    /\ variant = "telnet"
    /\ terminate = FALSE
    /\ loop_count = 0
    /\ file_exists = FALSE
    /\ pc = "idle"
    /\ count = 0
    /\ before_md5 = None
    /\ v_ret = "-"
    /\ outcome = "-"
    /\ writer = "None"
    /\ events = {}
    /\ end_reason = ""
    /\ sess = [created |-> 0, close_attempts |-> 0, instance_connects |-> 0]
    /\ browsers = 0
    /\ script_log = NoScript
    /\ drain = 0
    /\ web_last = "-"

\* an exception leaves main_process
Raise ==
    /\ pc' = "done"
    /\ end_reason' = "exception"

\* for count in range(1, LOOP_CHECK_COUNT + 1), telnet: close follows the loop
T_For(c) ==
    /\ count' = c
    /\ pc' = IF c <= loop_count THEN "upload" ELSE "close"
    /\ UNCHANGED end_reason

\* the same loop of auto_update_ssh.py: main_process returns after it
S_For(c) ==
    /\ count' = c
    /\ IF c <= loop_count
       THEN pc' = "s_open_web1" /\ UNCHANGED end_reason
       ELSE pc' = "done" /\ end_reason' = "complete"

T_Baseline ==
    /\ variant = "telnet" /\ pc = "start"
    /\ before_md5' = calculate_md5(file_exists)
    /\ IF before_md5' = None
       THEN pc' = "done" /\ end_reason' = "no_baseline"
       ELSE pc' = "web_main" /\ UNCHANGED end_reason
    /\ UNCHANGED <<variant, terminate, loop_count, file_exists, script_log, drain, web_last, count, v_ret,
                   outcome, writer, events, sess, browsers, extVars, sessVars, auxVars>>

\* web = Web(); web.web_main()
T_WebMain ==
    /\ pc = "web_main"
    /\ \E r \in OpenWebResults :
          /\ browsers' = IF r = "no_driver" THEN browsers ELSE browsers + 1
          /\ IF r = "ok" THEN pc' = "connect" /\ UNCHANGED end_reason ELSE Raise
    /\ UNCHANGED <<variant, terminate, loop_count, file_exists, script_log, drain, web_last, count, before_md5,
                   v_ret, outcome, writer, events, sess, extVars, sessVars, auxVars>>

\* serial_handler = SerialHandler(...); await serial_handler.connect()
T_Connect ==
    /\ pc = "connect"
    /\ \E ok \in BOOLEAN :
          IF ok
          THEN /\ writer' = "open"
               /\ sess' = [sess EXCEPT !.created = @ + 1, !.instance_connects = 1]
               /\ T_For(1)
          ELSE /\ Raise
               /\ UNCHANGED <<writer, sess, count>>
    /\ UNCHANGED <<variant, terminate, loop_count, file_exists, script_log, drain, web_last, before_md5, v_ret,
                   outcome, events, browsers, extVars, sessVars, auxVars>>

T_Upload ==
    /\ pc = "upload"
    /\ \E failing \in UploadSteps :
          /\ web_last' = IF failing # "none" THEN "upload_failed" ELSE "uploaded"
          /\ IF update_web_upload(failing) = "raised"
             THEN Raise
             ELSE pc' = "verify" /\ UNCHANGED end_reason
    /\ events' = events \cup {<<"upload", count>>}
    /\ UNCHANGED <<variant, terminate, loop_count, file_exists, script_log, drain, count, before_md5,
                   v_ret, outcome, writer, sess, browsers, extVars, sessVars, auxVars>>

T_Verify ==
    /\ pc = "verify"
    /\ \E failAt \in 0..Len(TelnetVerifyOps) :
       \E b1 \in ReadsWhen(failAt = 0), b2 \in ReadsWhen(failAt = 0),
          b3 \in ReadsWhen(failAt = 0) :
          LET reads == <<b1, b2, b3>>
              found == VerifyOutcome(failAt # 0, extract_md5(b3), before_md5)
          IN  /\ v_ret' = conn_validate_soft_process(failAt, reads, before_md5, terminate)
              /\ outcome' = found
              /\ script_log' = [step |-> "verify", connected |-> TRUE,
                                 ops |-> conn_validate_trace(failAt)]
              /\ events' = events \cup {<<"verify", count>>}
                              \cup (IF found \in {"mismatch", "none"}
                                    THEN {<<found, count>>} ELSE {})
    /\ pc' = "handle"
    /\ web_last' = "-"
    /\ UNCHANGED <<variant, terminate, loop_count, file_exists, drain, count, before_md5,
                   writer, end_reason, sess, browsers, extVars, sessVars, auxVars>>

T_Handle ==
    /\ pc = "handle"
    /\ events' = events \cup (IF v_ret = "False" THEN {<<"warning", count>>} ELSE {})
    /\ pc' = IF main_after_validate(v_ret, terminate) = "break" THEN "close" ELSE "delete"
    /\ script_log' = NoScript
    /\ UNCHANGED <<variant, terminate, loop_count, file_exists, drain, web_last, count, before_md5,
                   v_ret, outcome, writer, end_reason, sess, browsers, extVars, sessVars, auxVars>>

T_Delete ==
    /\ pc = "delete"
    /\ \E failing \in DeleteSteps \ {"next_boot"} :
          IF update_web_delete(failing) = "raised"
          THEN /\ Raise
               /\ events' = events \cup {<<"delete", count>>}
               /\ UNCHANGED count
          ELSE /\ events' = events \cup {<<"delete", count>>, <<"iteration_done", count>>}
               /\ T_For(count + 1)
    /\ UNCHANGED <<variant, terminate, loop_count, file_exists, script_log, drain, web_last, before_md5, v_ret,
                   outcome, writer, sess, browsers, extVars, sessVars, auxVars>>

\* await serial_handler.close(), the last line of main_process
T_Close ==
    /\ pc = "close"
    /\ pc' = "done"
    /\ \E transportRaises \in BOOLEAN :
          LET call == update_close(IF writer = "None" THEN "None" ELSE "set",
                                   transportRaises)
          IN  /\ writer' = IF call.calls_transport THEN "closed" ELSE writer
              /\ sess' = [sess EXCEPT !.close_attempts =
                                        IF call.calls_transport THEN @ + 1 ELSE @]
              /\ end_reason' = IF call.raised THEN "exception"
                               ELSE IF count <= loop_count THEN "break" ELSE "complete"
    /\ UNCHANGED <<variant, terminate, loop_count, file_exists, script_log, drain, web_last, count, before_md5,
                   v_ret, outcome, events, browsers, extVars, sessVars, auxVars>>

S_Baseline ==
    /\ variant = "ssh" /\ pc = "start"
    /\ before_md5' = calculate_md5(file_exists)
    /\ IF before_md5' = None
       THEN pc' = "done" /\ end_reason' = "no_baseline" /\ UNCHANGED count
       ELSE S_For(1)
    /\ UNCHANGED <<variant, terminate, loop_count, file_exists, script_log, drain, web_last, v_ret, outcome,
                   writer, events, sess, browsers, extVars, sessVars, auxVars>>

\* web.open_web(): before the upload (ph = 1) and before the delete (ph = 2)
S_OpenWeb(ph) ==
    /\ pc = (IF ph = 1 THEN "s_open_web1" ELSE "s_open_web2")
    /\ events' = events \cup {<<IF ph = 1 THEN "open_web1" ELSE "open_web2", count>>}
    /\ \E r \in OpenWebResults :
          /\ browsers' = IF r = "no_driver" THEN browsers ELSE browsers + 1
          /\ IF r = "ok"
             THEN pc' = (IF ph = 1 THEN "s_upload" ELSE "s_delete") /\ UNCHANGED end_reason
             ELSE Raise
    /\ script_log' = NoScript
    /\ UNCHANGED <<variant, terminate, loop_count, file_exists, drain, web_last, count, before_md5,
                   v_ret, outcome, writer, sess, extVars, sessVars, auxVars>>

S_Upload ==
    /\ pc = "s_upload"
    /\ \E failing \in UploadSteps :
          /\ web_upload(failing) \in {"uploaded", "failed_logged"}
          /\ web_last' = IF failing # "none" THEN "upload_failed" ELSE "uploaded"
    /\ events' = events \cup {<<"upload", count>>}
    /\ pc' = "s_close_web1"
    /\ UNCHANGED <<variant, terminate, loop_count, file_exists, script_log, drain, count, before_md5,
                   v_ret, outcome, writer, end_reason, sess, browsers, extVars, sessVars, auxVars>>

\* web.close_web(): driver.quit()
S_CloseWeb(ph) ==
    /\ pc = (IF ph = 1 THEN "s_close_web1" ELSE "s_close_web2")
    /\ \E raises \in BOOLEAN :
          IF raises
          THEN Raise /\ UNCHANGED <<browsers, count, events>>
          ELSE /\ browsers' = browsers - 1
               /\ IF ph = 1
                  THEN pc' = "s_verify1" /\ UNCHANGED <<end_reason, count, events>>
                  ELSE /\ events' = events \cup {<<"iteration_done", count>>}
                       /\ S_For(count + 1)
    /\ web_last' = "-"
    /\ UNCHANGED <<variant, terminate, loop_count, file_exists, script_log, drain, before_md5, v_ret,
                   outcome, writer, sess, extVars, sessVars, auxVars>>

\* md5_value = ssh_client.get_file_md5(test_file) and the comparison after it
S_Verify(ph) ==
    /\ pc = (IF ph = 1 THEN "s_verify1" ELSE "s_verify2")
    /\ \E connOk \in BOOLEAN, closeRaises \in BOOLEAN :
       \E failAt \in (IF connOk THEN 0..Len(SshMd5Script) ELSE {0}) :
       \E md5info \in ReadsWhen(connOk /\ failAt = 0) :
          LET call == ssh_get_file_md5(connOk, failAt, md5info, closeRaises)
              found == VerifyOutcome(~connOk \/ failAt # 0, call.ret, before_md5)
              after == ssh_after_md5(call.ret, before_md5, terminate)
              n == IF ph = 1 THEN "1" ELSE "2"
          IN  /\ sess' = [created |-> sess.created + 1,
                          close_attempts |-> sess.close_attempts + call.close_calls,
                          instance_connects |->
                              IF ph = 1 THEN 1 ELSE sess.instance_connects + 1]
              /\ script_log' = [step |-> "verify", connected |-> connOk,
                                 ops |-> call.trace]
              /\ IF call.raised
                 THEN /\ Raise
                      /\ events' = events \cup {<<"verify" \o n, count>>}
                      /\ UNCHANGED outcome
                 ELSE /\ outcome' = found
                      /\ events' = events \cup {<<"verify" \o n, count>>}
                                      \cup (IF found \in {"mismatch", "none"}
                                            THEN {<<found, count>>, <<found \o n, count>>}
                                            ELSE {})
                                      \cup (IF after.warn THEN {<<"warning", count>>} ELSE {})
                      /\ IF after.next = "break"
                         THEN pc' = "done" /\ end_reason' = "break"
                         ELSE /\ pc' = (IF ph = 1 THEN "s_reboot" ELSE "s_open_web2")
                              /\ UNCHANGED end_reason
    /\ drain' = 0
    /\ UNCHANGED <<variant, terminate, loop_count, file_exists, web_last, count, before_md5,
                   v_ret, writer, browsers, extVars, sessVars, auxVars>>

\* get_file_md5, lines 183-185: while shell.recv_ready() the loop receives
\* one more chunk of output and sleeps 0.2 s; the device decides how often
S_RecvReady(ph) ==
    /\ pc = (IF ph = 1 THEN "s_verify1" ELSE "s_verify2")
    /\ drain' = 1 - drain
    /\ UNCHANGED <<variant, terminate, loop_count, file_exists, script_log, web_last, pc, count,
                   before_md5, v_ret, outcome, writer, events, end_reason, sess,
                   browsers, extVars, sessVars, auxVars>>

\* a reboot step without the wait after it
S_Reboot_NoWait ==
    /\ pc = "s_reboot"
    /\ events' = events \cup {<<"reboot", count>>}
    /\ pc' = "s_verify2"
    /\ sess' = [sess EXCEPT !.created = @ + 1, !.close_attempts = @ + 1,
                            !.instance_connects = @ + 1]
    /\ script_log' = [step |-> "reboot", connected |-> TRUE,
                       ops |-> SshTrace(SshRebootScript, 3)]
    /\ UNCHANGED <<variant, terminate, loop_count, file_exists, drain, web_last, count,
                   before_md5, v_ret, outcome, writer, end_reason, browsers,
                   extVars, sessVars, auxVars>>

\* ssh_client.reboot(); time.sleep(60 * 4)
S_Reboot ==
    /\ pc = "s_reboot"
    /\ \E connOk \in BOOLEAN, closeRaises \in BOOLEAN :
       \E failAt \in (IF connOk THEN 0..Len(SshRebootScript) ELSE {0}) :
          LET call == ssh_reboot(connOk, failAt, closeRaises)
          IN  /\ sess' = [created |-> sess.created + 1,
                          close_attempts |-> sess.close_attempts + call.close_calls,
                          instance_connects |-> sess.instance_connects + 1]
              /\ script_log' = [step |-> "reboot", connected |-> connOk,
                                 ops |-> call.trace]
              /\ IF call.raised
                 THEN Raise /\ events' = events \cup {<<"reboot", count>>}
                 ELSE /\ events' = events \cup {<<"reboot", count>>, <<"wait", count>>}
                      /\ pc' = "s_verify2"
                      /\ UNCHANGED end_reason
    /\ UNCHANGED <<variant, terminate, loop_count, file_exists, drain, web_last, count, before_md5,
                   v_ret, outcome, writer, browsers, extVars, sessVars, auxVars>>

\* web.web_delete_software(test_file, original_file)
S_Delete ==
    /\ pc = "s_delete"
    /\ events' = events \cup {<<"delete", count>>}
    /\ \E failing \in DeleteSteps :
          IF web_delete(failing) = "raised"
          THEN Raise
          ELSE pc' = "s_close_web2" /\ UNCHANGED end_reason
    /\ UNCHANGED <<variant, terminate, loop_count, file_exists, script_log, drain, web_last, count, before_md5,
                   v_ret, outcome, writer, sess, browsers, extVars, sessVars, auxVars>>

OrchNext ==
    \/ T_Baseline
    \/ T_WebMain
    \/ T_Connect
    \/ T_Upload
    \/ T_Verify
    \/ T_Handle
    \/ T_Delete
    \/ T_Close
    \/ S_Baseline
    \/ \E ph \in {1, 2} : S_OpenWeb(ph)
    \/ S_Upload
    \/ \E ph \in {1, 2} : S_CloseWeb(ph)
    \/ \E ph \in {1, 2} : S_Verify(ph)
    \/ \E ph \in {1, 2} : S_RecvReady(ph)
    \/ S_Reboot
    \/ S_Delete

(***************************************************************************)
(* One session object under every sequence of calls.                       *)
(***************************************************************************)
MaxCalls == 4

SessInit ==
    /\ s_class \in {"update", "conn", "ssh"}
    /\ s_writer = "None"
    /\ s_chan = "none"
    /\ s_write_on = {}
    /\ s_closes = 0
    /\ s_last = [op |-> "__init__", raised |-> FALSE]
    /\ s_calls = 0

SessIdle ==
    /\ s_class = "update"
    /\ s_writer = "None"
    /\ s_chan = "none"
    /\ s_write_on = {}
    /\ s_closes = 0
    /\ s_last = [op |-> "idle", raised |-> FALSE]
    /\ s_calls = MaxCalls

\* connect() of auto_update.py, _connect() of auto_conn.py
Sess_Connect ==
    /\ s_class \in {"update", "conn"} /\ s_calls < MaxCalls
    /\ \E ok \in BOOLEAN :
          LET call == serial_connect(s_writer, ok)
          IN  /\ s_writer' = call.writer
              /\ s_chan' = IF ok THEN "open" ELSE s_chan
              /\ s_closes' = IF ok THEN 0 ELSE s_closes
              /\ s_last' = [op |-> "connect", raised |-> call.raised]
    /\ s_calls' = s_calls + 1
    /\ UNCHANGED <<s_class, s_write_on, extVars, orchVars, auxVars>>

Sess_SendCommand ==
    /\ s_class \in {"update", "conn"} /\ s_calls < MaxCalls
    /\ \E transportRaises \in BOOLEAN :
          LET call == serial_send_command(s_writer, transportRaises)
          IN  /\ s_write_on' = IF call.writes THEN s_write_on \cup {s_chan} ELSE s_write_on
              /\ s_last' = [op |-> "send_command",
                            raised |-> exception_handler(s_class, call.raised).raised,
                            logged |-> exception_handler(s_class, call.raised).logged]
    /\ s_calls' = s_calls + 1
    /\ UNCHANGED <<s_class, s_writer, s_chan, s_closes, extVars, orchVars, auxVars>>

Sess_ReadUntil ==
    /\ s_class \in {"update", "conn"} /\ s_calls < MaxCalls
    /\ \E stream \in DeviceStreams :
          LET call == serial_read_until(s_writer, stream)
          IN  s_last' = [op |-> "read_until",
                         raised |-> exception_handler(s_class, call.raised).raised,
                         logged |-> exception_handler(s_class, call.raised).logged,
                         stream |-> stream, ret |-> call.ret, chan |-> s_chan]
    /\ s_calls' = s_calls + 1
    /\ UNCHANGED <<s_class, s_writer, s_chan, s_write_on, s_closes, extVars, orchVars, auxVars>>

\* close() of auto_update.py, _safe_close() of auto_conn.py, _disconnect()
\* of auto_ssh.py
Sess_Close ==
    /\ s_calls < MaxCalls
    /\ \E transportRaises \in BOOLEAN :
          LET call == session_close(s_class, s_writer, transportRaises)
          IN  /\ s_writer' = call.writer
              /\ s_chan' = IF call.calls_transport THEN "closed" ELSE s_chan
              /\ s_closes' = IF call.calls_transport THEN s_closes + 1 ELSE s_closes
              /\ s_last' = [op |-> "close", raised |-> call.raised]
    /\ s_calls' = s_calls + 1
    /\ UNCHANGED <<s_class, s_write_on, extVars, orchVars, auxVars>>

\* get_file_md5() of auto_ssh.py: _connect assigns a new client, the
\* commands are sent on it, the finally block disconnects it
Sess_SshGetFileMd5 ==
    /\ s_class = "ssh" /\ s_calls < MaxCalls
    /\ \E connOk \in BOOLEAN, failAt \in 0..Len(SshMd5Script),
          md5info \in DeviceTexts, closeRaises \in BOOLEAN :
          LET call == ssh_get_file_md5(connOk, failAt, md5info, closeRaises)
          IN  /\ s_writer' = "set"
              /\ s_write_on' = IF call.sent > 0 THEN s_write_on \cup {"open"} ELSE s_write_on
              /\ s_chan' = IF call.close_calls > 0 THEN "closed"
                           ELSE IF connOk THEN "open" ELSE "none"
              /\ s_closes' = call.close_calls
              /\ s_last' = [op |-> "get_file_md5", raised |-> call.raised,
                            ret |-> call.ret]
    /\ s_calls' = s_calls + 1
    /\ UNCHANGED <<s_class, extVars, orchVars, auxVars>>

\* get_file_md5() of auto_conn.py
Sess_ConnGetFileMd5 ==
    /\ s_class = "conn" /\ s_calls < MaxCalls
    /\ \E connOk \in BOOLEAN, stepRaises \in BOOLEAN,
          bufText \in DeviceTexts \cup {Rep("U+0660", MD5_LEN)},
          closeRaises \in BOOLEAN :
          LET call == conn_get_file_md5(s_writer, connOk, stepRaises, bufText,
                                        closeRaises)
          IN  /\ s_writer' = call.writer
              /\ s_write_on' = IF call.sent THEN s_write_on \cup {"open"}
                               ELSE s_write_on
              /\ s_chan' = IF call.close_calls > 0 THEN "closed"
                           ELSE IF connOk THEN "open" ELSE s_chan
              /\ s_closes' = (IF connOk THEN 0 ELSE s_closes) + call.close_calls
              /\ s_last' = [op |-> "get_file_md5", raised |-> call.raised,
                            ret |-> call.ret]
    /\ s_calls' = s_calls + 1
    /\ UNCHANGED <<s_class, extVars, orchVars, auxVars>>

\* reboot() of auto_ssh.py
Sess_SshReboot ==
    /\ s_class = "ssh" /\ s_calls < MaxCalls
    /\ \E connOk \in BOOLEAN, failAt \in 0..Len(SshRebootScript), closeRaises \in BOOLEAN :
          LET call == ssh_reboot(connOk, failAt, closeRaises)
          IN  /\ s_writer' = "set"
              /\ s_write_on' = IF call.sent > 0 THEN s_write_on \cup {"open"} ELSE s_write_on
              /\ s_chan' = IF call.close_calls > 0 THEN "closed"
                           ELSE IF connOk THEN "open" ELSE "none"
              /\ s_closes' = call.close_calls
              /\ s_last' = [op |-> "reboot", raised |-> call.raised]
    /\ s_calls' = s_calls + 1
    /\ UNCHANGED <<s_class, extVars, orchVars, auxVars>>

SessNext ==
    \/ Sess_Connect
    \/ Sess_SendCommand
    \/ Sess_ReadUntil
    \/ Sess_Close
    \/ Sess_SshGetFileMd5
    \/ Sess_ConnGetFileMd5
    \/ Sess_SshReboot

(***************************************************************************)
(* The helpers of the web classes, each on every input.                    *)
(***************************************************************************)
AlertInputs ==
    [call : {"handle_alert"}, class : {"update", "web"}, appears : {TRUE},
     text : AlertTexts, actRaises : BOOLEAN]
    \cup [call : {"handle_alert"}, class : {"update", "web"}, appears : {FALSE},
          text : {<<>>}, actRaises : {FALSE}]
DeleteInputs ==
    { i \in [call : {"web_delete_software"}, original_file : BOOLEAN,
             failing : DeleteSteps] :
        i.failing = "next_boot" => i.original_file }

ToolInit ==
    /\ fn = "input"
    /\ fn_in \in AlertInputs \cup DeleteInputs
    /\ fn_out = <<>>

ToolIdle ==
    /\ fn = "idle"
    /\ fn_in = <<>>
    /\ fn_out = <<>>

Call_handle_alert ==
    /\ fn = "input" /\ fn_in.call = "handle_alert"
    /\ fn' = "handle_alert"
    /\ fn_out' = handle_alert(fn_in.class, fn_in)
    /\ UNCHANGED <<fn_in, extVars, orchVars, sessVars, termVars, streamVars>>

Call_web_delete_software ==
    /\ fn = "input" /\ fn_in.call = "web_delete_software"
    /\ fn' = "web_delete_software"
    /\ fn_out' = web_delete_trace(fn_in.original_file, fn_in.failing)
    /\ UNCHANGED <<fn_in, extVars, orchVars, sessVars, termVars, streamVars>>

ToolNext ==
    \/ Call_handle_alert
    \/ Call_web_delete_software

(***************************************************************************)
(* ssh_interactive_shell, one typed line at a time.                        *)
(***************************************************************************)
MaxTyped == 3
MaxRx == 2

\* the thread of read_output: whether it runs, the chunks of device output
\* waiting in the channel, the chunks it received while the channel was
\* open and after the channel was closed
NoReader == [state |-> "none", waiting |-> 0, received |-> 0, received_closed |-> 0]

TermInit ==
    /\ t_pc = "start"
    /\ t_typed = <<>>
    /\ t_sent = <<>>
    /\ t_closes = 0
    /\ t_reader = NoReader

TermIdle ==
    /\ t_pc = "idle"
    /\ t_typed = <<>>
    /\ t_sent = <<>>
    /\ t_closes = 0
    /\ t_reader = NoReader

\* connect, invoke_shell, start the reading thread; a failure is printed
Term_Connect ==
    /\ t_pc = "start"
    /\ \E ok \in BOOLEAN :
          /\ t_pc' = IF ok THEN "loop" ELSE "failed"
          /\ t_reader' = IF ok THEN [t_reader EXCEPT !.state = "running"]
                         ELSE t_reader
    /\ UNCHANGED <<t_typed, t_sent, t_closes, extVars, orchVars, sessVars,
                   toolVars, streamVars>>

\* input() returns a line: leave the loop and close, or send the line
Term_Line ==
    /\ t_pc = "loop" /\ Len(t_typed) < MaxTyped
    /\ \E command \in TermLines, sendRaises \in BOOLEAN :
          /\ t_typed' = Append(t_typed, command)
          /\ IF shell_step(command) = "break"
             THEN /\ t_pc' = "closed"
                  /\ t_closes' = t_closes + 1
                  /\ t_sent' = t_sent
             ELSE /\ t_pc' = IF sendRaises THEN "failed" ELSE "loop"
                  /\ t_closes' = t_closes
                  /\ t_sent' = Append(t_sent, command \o <<"\n">>)
    /\ UNCHANGED <<t_reader, extVars, orchVars, sessVars, toolVars, streamVars>>

\* input() raises EOFError: printed, the function returns
Term_Eof ==
    /\ t_pc = "loop"
    /\ t_pc' = "failed"
    /\ UNCHANGED <<t_typed, t_sent, t_closes, t_reader, extVars, orchVars, sessVars,
                   toolVars, streamVars>>

\* the device sends a chunk of output while the channel is open
Term_DeviceOutput ==
    /\ t_pc = "loop" /\ t_reader.waiting < MaxRx
    /\ t_reader' = [t_reader EXCEPT !.waiting = @ + 1]
    /\ UNCHANGED <<t_pc, t_typed, t_sent, t_closes, extVars, orchVars, sessVars,
                   toolVars, streamVars>>

\* one turn of the loop of read_output with shell.recv_ready() true:
\* shell.recv takes what is waiting, decode may raise and end the thread.
\* The loop has no exit: with nothing waiting it tests recv_ready() again.
Reader_Recv ==
    /\ t_reader.state = "running" /\ t_reader.waiting > 0
    /\ \E decodeRaises \in BOOLEAN :
          t_reader' = [state |-> IF decodeRaises THEN "dead" ELSE "running",
                       waiting |-> 0,
                       received |-> IF t_pc = "closed" THEN t_reader.received
                                    ELSE 1,
                       received_closed |-> IF t_pc = "closed" THEN 1
                                           ELSE t_reader.received_closed]
    /\ UNCHANGED <<t_pc, t_typed, t_sent, t_closes, extVars, orchVars, sessVars,
                   toolVars, streamVars>>

TermNext ==
    \/ Term_Connect
    \/ Term_Line
    \/ Term_Eof
    \/ Term_DeviceOutput
    \/ Reader_Recv

(***************************************************************************)
(* The telnet session across the iterations of main_process: what the      *)
(* device sends, when it arrives, and what the three reads of each Verify  *)
(* step take from the reader.  A piece of output is the text up to and     *)
(* including one occurrence of the file name, with the iteration whose     *)
(* commands it answers.                                                    *)
(***************************************************************************)
MaxPending == 3
NoPiece == [iter |-> 0, text |-> <<>>]

StreamInit ==
    /\ st_term \in BOOLEAN
    /\ st_count = 0
    /\ st_rx = <<>>
    /\ st_reads = <<>>
    /\ st_ret = "-"

StreamIdle ==
    /\ st_term = FALSE
    /\ st_count = MaxLoop
    /\ st_rx = <<>>
    /\ st_reads = <<>>
    /\ st_ret = "idle"

\* what the device answers in iteration k: the listing of ls (when it names
\* the file), the echo of the md5sum command (when the device echoes), the
\* line md5sum prints (when it prints one)
DeviceAnswers(k) ==
    { (IF listing THEN << [iter |-> k, text |-> TestFileName] >> ELSE <<>>)
      \o (IF echo THEN << [iter |-> k,
                           text |-> <<"m", "d", "5", "s", "u", "m", " ">>
                                    \o TestFileName] >> ELSE <<>>)
      \o (IF h # None THEN << [iter |-> k, text |-> Md5sumLine(h)] >> ELSE <<>>) :
        listing \in BOOLEAN, echo \in BOOLEAN,
        h \in {None, EmptyFileMd5, OtherMd5} }

\* read_until on the reader: the first piece waiting, or "" at the timeout
ReadPiece(waiting) ==
    IF waiting = <<>> THEN [read |-> NoPiece, rest |-> <<>>]
    ELSE [read |-> Head(waiting), rest |-> Tail(waiting)]

\* conn_validate_soft_process on the session of the run, iteration st_count + 1.
\* a1, a2, a3: how many of the device's answers have arrived by the end of
\* the first, second and third read; before md5sum is sent only the listing
\* can arrive.  What has not been read stays in the reader.
Stream_Verify ==
    /\ st_count < MaxLoop
    /\ st_ret = "-" \/ main_after_validate(st_ret, st_term) # "break"
    /\ \E answers \in DeviceAnswers(st_count + 1) :
       \E a1 \in 0..Len(answers), a2 \in 0..Len(answers), a3 \in 0..Len(answers) :
          /\ a1 <= a2 /\ a2 <= a3
          /\ a1 > 0 => (a1 = 1 /\ answers[1].text = TestFileName)
          /\ LET r1 == ReadPiece(st_rx \o SubSeq(answers, 1, a1))
                 r2 == ReadPiece(r1.rest \o SubSeq(answers, a1 + 1, a2))
                 r3 == ReadPiece(r2.rest \o SubSeq(answers, a2 + 1, a3))
                 left == r3.rest \o SubSeq(answers, a3 + 1, Len(answers))
             IN  /\ Len(left) <= MaxPending
                 /\ st_rx' = left
                 /\ st_reads' = <<r1.read, r2.read, r3.read>>
                 /\ st_ret' = conn_validate_soft_process(
                                  0, <<r1.read.text, r2.read.text, r3.read.text>>,
                                  EmptyFileMd5, st_term)
    /\ st_count' = st_count + 1
    /\ UNCHANGED <<st_term, extVars, orchVars, sessVars, toolVars, termVars>>

StreamNext == Stream_Verify

AuxIdle == ToolIdle /\ TermIdle /\ StreamIdle

Init == OrchInit /\ ExtIdle /\ SessIdle /\ AuxIdle
Next == OrchNext
Spec == Init /\ [][Next]_vars

\* main_process runs on: a step that can be taken is taken
SpecLive == Init /\ [][Next]_vars /\ WF_vars(Next)

InitSession == SessInit /\ ExtIdle /\ OrchIdle /\ AuxIdle
SpecSession == InitSession /\ [][SessNext]_vars

InitExtract == ExtInit /\ OrchIdle /\ SessIdle /\ AuxIdle
SpecExtract == InitExtract /\ [][ExtNext]_vars

InitTools ==
    ToolInit /\ TermIdle /\ StreamIdle /\ ExtIdle /\ OrchIdle /\ SessIdle
SpecTools == InitTools /\ [][ToolNext]_vars

InitTerminal ==
    TermInit /\ ToolIdle /\ StreamIdle /\ ExtIdle /\ OrchIdle /\ SessIdle
SpecTerminal == InitTerminal /\ [][TermNext]_vars

InitStream ==
    StreamInit /\ ToolIdle /\ TermIdle /\ ExtIdle /\ OrchIdle /\ SessIdle
SpecStream == InitStream /\ [][StreamNext]_vars

(***************************************************************************)
(* Claims about the orchestrators (Spec).                                  *)
(***************************************************************************)
StepNames == {"upload", "verify", "verify1", "verify2", "reboot", "delete",
              "open_web1", "open_web2"}

\* C1: with terminate_on_md5_mismatch set, once a verification of iteration k
\* has extracted a hash that differs from the baseline, the loop never
\* reaches iteration k+1: no upload, verify, reboot or delete of a later
\* iteration is performed, in the telnet and in the SSH orchestrator.
C1_NoIterationAfterMismatch ==
    terminate =>
        \A k \in 1..loop_count :
            <<"mismatch", k>> \in events =>
                /\ count <= k
                /\ \A j \in (k + 1)..loop_count, s \in StepNames : <<s, j>> \notin events

C1_Witness ==
    /\ terminate /\ loop_count >= 2
    /\ pc = "done" /\ end_reason = "break"
    /\ <<"mismatch", 1>> \in events

C3_CaseInsensitiveCompare ==
    outcome = "match" =>
        /\ pc = "handle" => v_ret = "True"
        /\ pc = "s_reboot" => <<"warning", count>> \notin events
        /\ end_reason # "break"
        /\ pc = "close" => count > loop_count

\* C4 as stated: whenever a verification of iteration k extracted no token
\* and the run ended without an exception, the cleanup of iteration k was
\* performed.
C4_NoneAlwaysCleansUp ==
    (pc = "done" /\ end_reason \in {"complete", "break"}) =>
        \A k \in 1..loop_count :
            <<"none", k>> \in events => <<"delete", k>> \in events

\* C4 (amended): a verification that extracts no token is followed by what
\* follows a match, whatever terminate_on_md5_mismatch is.  It does not end
\* the loop; in the telnet orchestrator it returns what a match returns and
\* the delete of that iteration is the next web step; in the SSH
\* orchestrator the reboot follows Verify1 and the cleanup follows Verify2.
C4_NoneProceedsAsMatch ==
    /\ outcome = "none" =>
          /\ pc = "handle" => v_ret = "True"
          /\ end_reason # "break"
          /\ pc = "close" => count > loop_count
    /\ \A k \in 1..loop_count :
          /\ (variant = "telnet" /\ <<"none", k>> \in events) =>
                \/ count = k /\ pc \in {"handle", "delete"}
                \/ <<"delete", k>> \in events
          /\ <<"none1", k>> \in events =>
                \/ count = k /\ pc = "s_reboot"
                \/ <<"reboot", k>> \in events
          /\ <<"none2", k>> \in events =>
                \/ count = k /\ pc = "s_open_web2"
                \/ <<"open_web2", k>> \in events

C4_Witness ==
    /\ terminate
    /\ <<"none", 1>> \in events /\ <<"delete", 1>> \in events
    /\ <<"upload", 2>> \in events

\* what conn_validate_soft_process returns for a match
MatchReturn ==
    conn_validate_soft_process(0, <<TestFileName, <<>>, Md5sumLine(before_md5)>>,
                               before_md5, terminate)

\* C5: an extraction miss reaches the orchestrator as a value other than the
\* one a successful match returns.
C5_MissDistinctFromMatch ==
    (pc = "handle" /\ outcome = "none") => v_ret # MatchReturn

\* C7: when the run has ended, close has been attempted once for every
\* device session that was created.
C7_EverySessionClosedOnce ==
    pc = "done" => sess.close_attempts = sess.created

\* C12: the baseline hash is computed once, before the first iteration, and
\* is never assigned again: in every later state it is the hash computed
\* from the local file, and every comparison of every iteration, before and
\* after the reboot, is made against it (a hash that differs from it is
\* never reported as equal and always draws the warning).
C12_BaselineComputedOnce ==
    /\ [](pc \notin {"start", "idle"} => before_md5 = calculate_md5(file_exists))
    /\ []((pc = "handle" /\ outcome = "mismatch") => v_ret \in {"False", "SystemExit"})
    /\ [](\A k \in 1..loop_count :
            (<<"mismatch1", k>> \in events \/ <<"mismatch2", k>> \in events) =>
                <<"warning", k>> \in events)
    /\ [][pc # "start" => before_md5' = before_md5]_vars

C12_Witness ==
    /\ before_md5 = EmptyFileMd5
    /\ count = 2 /\ pc = "handle" /\ outcome = "mismatch"
    /\ <<"verify", 1>> \in events

\* C13: a web upload in which a step failed does not end the run: after it
\* the orchestrator is at the verification of the same iteration (in the SSH
\* orchestrator at the close of the browser, which precedes it).
C13_UploadFailureNoAbort ==
    web_last = "upload_failed" => pc \in {"verify", "s_close_web1"}

\* the place of a command in the order the claim gives: mount, cd, ls,
\* md5sum; 0 for every other command
ScriptRank(cmd) ==
    CASE cmd = "mount /boot" -> 1
      [] cmd = "cd /boot" -> 2
      [] cmd = "ls" -> 3
      [] cmd = "md5sum test.bin" -> 4
      [] OTHER -> 0
SendsAt(ops) == {i \in 1..Len(ops) : ops[i][1] = "send"}
ReadsAt(ops) == {i \in 1..Len(ops) : ops[i][1] = "read"}
SentBefore(ops, cmd, i) == \E j \in SendsAt(ops) : j < i /\ ops[j][2] = cmd

\* C14: in every Verify step the commands are sent one at a time, the
\* settle delay of a command elapsing before anything else is done; mount,
\* cd, ls (telnet) and md5sum are sent in that order, each at most once,
\* after the initialization commands; md5sum is never sent before mount and
\* cd; the first read follows ls and the later reads follow md5sum (telnet),
\* and output is received only for a command already sent and settled (SSH).
C14_ScriptOrder ==
    script_log.step = "verify" =>
        LET ops == script_log.ops
        IN  /\ \A i \in SendsAt(ops) :
                  i < Len(ops) /\ ops[i + 1] = <<"settle", ops[i][2]>>
            /\ \A i \in SendsAt(ops), j \in SendsAt(ops) :
                  (i < j /\ ScriptRank(ops[j][2]) > 0) =>
                      ScriptRank(ops[i][2]) < ScriptRank(ops[j][2])
            /\ \A i \in SendsAt(ops), j \in SendsAt(ops) :
                  (i < j /\ ScriptRank(ops[i][2]) > 0 /\ ScriptRank(ops[j][2]) = 0) =>
                      variant = "ssh" /\ SentBefore(ops, "md5sum test.bin", j)
            /\ \A i \in SendsAt(ops) :
                  ops[i][2] = "md5sum test.bin" =>
                      /\ SentBefore(ops, "mount /boot", i)
                      /\ SentBefore(ops, "cd /boot", i)
                      /\ variant = "telnet" => SentBefore(ops, "ls", i)
            /\ \A r \in ReadsAt(ops) :
                  /\ SentBefore(ops, "ls", r)
                  /\ (\E q \in ReadsAt(ops) : q < r) =>
                        SentBefore(ops, "md5sum test.bin", r)
            /\ \A r \in 1..Len(ops) :
                  ops[r][1] = "recv" =>
                      r > 2 /\ ops[r - 1] = <<"settle", ops[r][2]>>
                            /\ ops[r - 2] = <<"send", ops[r][2]>>

C14_Witness ==
    /\ variant = "telnet" /\ pc = "handle" /\ script_log.step = "verify"
    /\ Cardinality(ReadsAt(script_log.ops)) = 3
    /\ SentBefore(script_log.ops, "md5sum test.bin", Len(script_log.ops))

\* C15: in the SSH orchestrator the phases of an iteration come in the order
\* Upload, Verify1, Reboot, fixed wait, Verify2, Cleanup: no phase of
\* iteration k is performed unless the phases before it were performed in
\* iteration k.
C15_PhaseOrder ==
    variant = "ssh" =>
        \A k \in 1..loop_count :
            /\ <<"verify1", k>> \in events => <<"upload", k>> \in events
            /\ <<"reboot", k>> \in events => <<"verify1", k>> \in events
            /\ <<"wait", k>> \in events => <<"reboot", k>> \in events
            /\ <<"verify2", k>> \in events =>
                  <<"reboot", k>> \in events /\ <<"wait", k>> \in events
            /\ <<"open_web2", k>> \in events => <<"verify2", k>> \in events
            /\ <<"delete", k>> \in events => <<"verify2", k>> \in events
            /\ <<"iteration_done", k>> \in events => <<"delete", k>> \in events
            /\ (k > 1 /\ <<"open_web1", k>> \in events) =>
                  <<"iteration_done", k - 1>> \in events

C15_Witness ==
    /\ variant = "ssh" /\ pc = "done" /\ end_reason = "complete"
    /\ <<"delete", 2>> \in events /\ <<"wait", 2>> \in events

\* C16: with terminate_on_md5_mismatch set, a comparison that finds a
\* mismatch ends the run at once: in the telnet orchestrator nothing but the
\* close of the session follows, in the SSH orchestrator main_process is
\* over; no reboot, second verification or delete of that iteration and no
\* step of a later iteration is performed.
C16_MismatchAbortsAtOnce ==
    terminate =>
        \A k \in 1..loop_count :
            /\ (variant = "telnet" /\ <<"mismatch", k>> \in events) =>
                  /\ count = k /\ pc \in {"handle", "close", "done"}
                  /\ pc = "done" => end_reason \in {"break", "exception"}
                  /\ <<"delete", k>> \notin events
            /\ <<"mismatch1", k>> \in events =>
                  /\ count = k /\ pc = "done" /\ end_reason = "break"
                  /\ \A s \in {"reboot", "wait", "verify2", "open_web2", "delete"} :
                        <<s, k>> \notin events
            /\ <<"mismatch2", k>> \in events =>
                  /\ count = k /\ pc = "done" /\ end_reason = "break"
                  /\ \A s \in {"open_web2", "delete"} : <<s, k>> \notin events
            /\ <<"mismatch", k>> \in events =>
                  \A j \in (k + 1)..loop_count, s \in StepNames : <<s, j>> \notin events

C16_Witness ==
    /\ terminate /\ variant = "ssh" /\ pc = "done"
    /\ <<"mismatch2", 1>> \in events /\ loop_count >= 2

\* C17: no session instance is connected more than once: every connect is
\* made on an instance that was never connected before.
C17_NoReconnect == sess.instance_connects <= 1

IterationsWith(step) == {k \in 1..(loop_count + 1) : <<step, k>> \in events}

\* C18: whatever the device does the run ends; it never performs more than
\* loop_check_count uploads; and a run that ends without a mismatch
\* termination and without a fatal error has performed the upload and the
\* delete of every iteration 1..loop_check_count.
C18_FixedIterationCount ==
    /\ <>(pc = "done")
    /\ [](Cardinality(IterationsWith("upload")) <= loop_count)
    /\ []((pc = "done" /\ end_reason = "complete") =>
            /\ IterationsWith("upload") = 1..loop_count
            /\ IterationsWith("delete") = 1..loop_count)

\* C19: after a Verify step whose connection could not be opened the
\* orchestrator has ended the run or stands at an iteration boundary: it is
\* not at the next device step (the reboot) or web step (the delete) of the
\* same iteration.
C19_ConnectFailureStopsIteration ==
    (script_log.step = "verify" /\ ~script_log.connected) =>
        pc \notin {"s_reboot", "s_open_web2"}

\* C20: when the local file does not exist the run ends at the baseline:
\* no browser is opened, no upload attempted, no device session connected.
C20_NoBaselineNoRun ==
    ~file_exists =>
        /\ pc \in {"start", "done"}
        /\ pc = "done" => end_reason = "no_baseline"
        /\ events = {} /\ browsers = 0 /\ writer = "None"
        /\ sess.created = 0 /\ sess.instance_connects = 0
        /\ script_log = NoScript

C20_Witness == ~file_exists /\ pc = "done" /\ end_reason = "no_baseline"

(***************************************************************************)
(* Claims about the extractors (SpecExtract).                              *)
(***************************************************************************)
HexChars == AsciiDigits \cup HexLower \cup HexUpper

\* C6: extract_md5 (and _extract_md5 of auto_conn.py) returns the leftmost
\* run of 32 hexadecimal characters of the text, and None when the text has
\* no such run.
C6_LeftmostHexToken ==
    ext_pc \in {"extract_md5", "conn_extract_md5"} =>
        LET starts == RunStarts(buf, HexChars)
        IN  IF starts = {} THEN ext_ret = None
            ELSE ext_ret = SubSeq(buf, Min(starts), Min(starts) + MD5_LEN - 1)

(***************************************************************************)
(* Claims about one session object (SpecSession).                          *)
(***************************************************************************)
\* C8: whatever the sequence of calls, text is written only to a channel
\* that is open: never before connect, after a failed connect or after close.
C8_NoWriteUnlessOpen == s_write_on \subseteq {"open"}

\* C9: however often close is called on a telnet session (auto_update.py) or
\* a telnet handler (auto_conn.py), only the first call reaches the channel.
C9_CloseReachesChannelOnce ==
    s_class \in {"update", "conn"} => s_closes <= 1

\* C10: close never propagates an error of the transport, in any of the
\* three session classes.
C10_CloseNeverPropagates == s_last.op = "close" => ~s_last.raised

\* C11: a read_until on an open session returns text containing the token
\* when the device sends the token in time, and returns the empty text when
\* the timeout elapses first; in neither case does it raise.
C11_ReadUntilTokenOrEmpty ==
    (s_last.op = "read_until" /\ s_last.chan = "open") =>
        LET arrived == Occurrences(s_last.stream.bytes, TestFileName) # {}
        IN  /\ arrived =>
                  /\ ~s_last.raised
                  /\ Occurrences(s_last.ret, TestFileName) # {}
            /\ (~arrived /\ ~s_last.stream.eof) =>
                  /\ ~s_last.raised
                  /\ s_last.ret = <<>>


(***************************************************************************)
(* Claims about the helpers of the web classes (SpecTools).                *)
(***************************************************************************)
\* the text holds one of the keywords somewhere
HasSuccessKeyword(text) ==
    \E keyword \in SuccessKeywords :
       \E i \in 1..Len(text) :
          /\ i + Len(keyword) - 1 <= Len(text)
          /\ SubSeq(text, i, i + Len(keyword) - 1) = keyword

\* C21: a dialog that appears is accepted when its text contains one of the
\* success keywords and dismissed when it contains none; one of the two,
\* and only one, is performed for it.
C21_AlertAcceptedIffKeyword ==
    (fn = "handle_alert" /\ fn_in.appears) =>
        /\ Len(fn_out.ops) = 1
        /\ fn_out.ops[1] = "accept" <=> HasSuccessKeyword(fn_in.text)
        /\ fn_out.ops[1] = "dismiss" <=> ~HasSuccessKeyword(fn_in.text)

\* C21: a dialog whose text ends with "completed" has been accepted
C21_Witness ==
    /\ fn = "handle_alert" /\ fn_in.appears
    /\ fn_in.text = <<"U+6210">> \o <<"c", "o", "m", "p", "l", "e", "t", "e", "d">>
    /\ fn_out.ops = <<"accept">>

\* C22: in web_delete_software, with a rollback file the attempt to select it
\* for the next boot comes before the attempt to delete, and the delete is
\* attempted whether or not the selection succeeded; without a rollback file
\* there is no next-boot step and the delete is attempted.
C22_NextBootThenDelete ==
    fn = "web_delete_software" =>
        LET trace == fn_out.trace
            At(step) == { i \in 1..Len(trace) : trace[i] = step }
        IN  /\ At("delete") # {}
            /\ fn_in.original_file =>
                   \E i \in At("next_boot") : \A j \in At("delete") : i < j
            /\ ~fn_in.original_file => At("next_boot") = {}

(***************************************************************************)
(* Claims about ssh_interactive_shell (SpecTerminal).                      *)
(***************************************************************************)
\* C23: every typed line that is not exit_shell in some letter case has been
\* sent with "\n" after it, in the order typed; the first line that is
\* exit_shell in some letter case is not sent, ends the loop and closes the
\* connection, and nothing is sent after it.
C23_LinesSentUntilExit ==
    t_pc \in {"loop", "closed", "failed"} =>
        LET n == Len(t_typed)
            lines == IF t_pc = "closed" THEN SubSeq(t_typed, 1, n - 1) ELSE t_typed
        IN  /\ t_sent = [i \in 1..Len(lines) |-> lines[i] \o <<"\n">>]
            /\ \A i \in 1..Len(lines) : Lower(lines[i]) # ExitShell
            /\ t_pc = "closed" =>
                   /\ n >= 1
                   /\ Lower(t_typed[n]) = ExitShell
                   /\ t_closes = 1
            /\ t_pc # "closed" => t_closes = 0

\* C23: "ls" then "EXIT_SHELL" typed: "ls" sent, the connection closed
C23_Witness ==
    /\ t_pc = "closed"
    /\ t_typed = << <<"l", "s">>, Upper(ExitShell) >>
    /\ t_sent = << <<"l", "s", "\n">> >>
    /\ t_closes = 1

(***************************************************************************)
(* Claims about the telnet session across iterations (SpecStream).         *)
(***************************************************************************)
\* what the comparison of a token with the baseline returns
ComparedAs(token, term) ==
    IF token = EmptyFileMd5 THEN "True"
    ELSE IF term THEN "SystemExit" ELSE "False"

\* C24: when one of the two reads that follow the md5sum command returned
\* text with a hash token, a token so delivered is the one compared with the
\* baseline, whatever the other read returned.
C24_TokenOfAnyReadCompared ==
    st_reads # <<>> =>
        LET delivered == { extract_md5(st_reads[i].text) : i \in {2, 3} } \ {None}
        IN  delivered # {} =>
               \E token \in delivered : st_ret = ComparedAs(token, st_term)

\* C26: the text from which the hash of an iteration is extracted was sent
\* by the device in answer to the commands of that iteration.
C26_HashFromOwnIteration ==
    (st_reads # <<>> /\ extract_md5(st_reads[3].text) # None) =>
        st_reads[3].iter = st_count

(***************************************************************************)
(* Claims about the orchestrators (Spec), continued.                       *)
(***************************************************************************)
\* C27: in the telnet run an exception in the Verify step is handled as a
\* mismatch: conn_validate_soft_process returns False; with terminate set
\* the loop ends and the iteration is not cleaned up; with terminate unset
\* the iteration is cleaned up before the next one starts; and when the run
\* has ended the session has been closed.
C27_VerifyErrorHandledAsMismatch ==
    (variant = "telnet" /\ outcome = "error") =>
        /\ pc = "handle" => v_ret = "False"
        /\ terminate =>
               /\ pc \in {"handle", "close", "done"}
               /\ <<"delete", count>> \notin events
        /\ (~terminate /\ pc \in {"upload", "verify"}) =>
               <<"delete", count - 1>> \in events
        /\ pc = "done" => sess.close_attempts = sess.created

\* C28: in the SSH run, between the calls of get_file_md5 and reboot no
\* connection is open: each call has closed the connection it opened, also
\* when it failed.
C28_NoSshConnectionBetweenCalls ==
    variant = "ssh" => sess.close_attempts = sess.created

\* C28: during the wait after the reboot, two connections made and closed
C28_Witness ==
    /\ variant = "ssh" /\ pc = "s_verify2"
    /\ sess.created = 2 /\ sess.close_attempts = 2

\* C29: in the SSH run at most one browser is open, and none when
\* main_process has returned or failed.
C29_NoBrowserLeftOpen ==
    variant = "ssh" =>
        /\ browsers <= 1
        /\ pc = "done" => browsers = 0

(***************************************************************************)
(* Claims about the extractors and the session objects, continued.         *)
(***************************************************************************)
\* C25: on every text, the extraction of SSHClientWrapper.get_file_md5
\* returns what extract_md5 returns: the leftmost run of 32 hexadecimal
\* characters, None when there is none.
C25_SshExtractionAgrees ==
    ext_pc = "ssh_extract_md5" =>
        /\ ext_ret = extract_md5(buf)
        /\ LET starts == RunStarts(buf, HexChars)
           IN  IF starts = {} THEN ext_ret = None
               ELSE ext_ret = SubSeq(buf, Min(starts), Min(starts) + MD5_LEN - 1)

\* C30: get_file_md5 of the telnet handler and of the SSH wrapper does not
\* raise; it returns None or 32 hexadecimal characters; the connection is
\* closed when it returns.
C30_GetFileMd5NeverRaises ==
    s_last.op = "get_file_md5" =>
        /\ ~s_last.raised
        /\ \/ s_last.ret = None
           \/ /\ Len(s_last.ret) = MD5_LEN
              /\ \A i \in 1..MD5_LEN : s_last.ret[i] \in HexChars
        /\ s_chan \in {"none", "closed"}


\* C31: when send_command or read_until of a session fails, the wrapper of
\* exception_handler has logged the error once and the caller gets the
\* error, in auto_update.py as in auto_conn.py.
C31_FailureLoggedOnceAndRaised ==
    (s_last.op \in {"send_command", "read_until"} /\ s_last.raised) =>
        s_last.logged = 1

(***************************************************************************)
(* Claims about ssh_interactive_shell (SpecTerminal), continued.           *)
(***************************************************************************)
\* C32: once exit_shell has closed the connection, the thread of
\* read_output receives nothing more from the closed channel, and it has
\* stopped when ssh_interactive_shell returns.
C32_ReaderStopsAtExit ==
    t_pc = "closed" =>
        /\ t_reader.received_closed = 0
        /\ t_reader.state # "running"

====
